---- MODULE Spec2Model ----
(***************************************************************************)
(* Validation worker (src/worker_validation.py): the job queue kept in the *)
(* table validations_jobs, the Runners' poll loop (work_loop), the         *)
(* watchdog, the coordination by phone and the notifications.              *)
(*                                                                         *)
(* Store semantics.  Every Runner has its own connection with              *)
(* autocommit = True.  A statement outside a `with conn:` block is its own *)
(* transaction.  A `with conn:` block is one transaction (psycopg2 >= 2.9  *)
(* begins a transaction inside a with block on autocommit connections      *)
(* too): its row locks are kept, and its writes are invisible to the other *)
(* connections, until the block is left (commit, or rollback when it is    *)
(* left by an exception).  The isolation level is READ COMMITTED: an       *)
(* UPDATE waits for a row locked by another transaction and then works on  *)
(* the committed row; SELECT .. FOR UPDATE SKIP LOCKED skips such a row.   *)
(*                                                                         *)
(* Time.  The unit is one tick.  For a RUNNING job, age is NOW() minus     *)
(* updated_at; for a Runner, elapsed is time.monotonic() minus start.      *)
(* Both are only ever compared with TTL_SECONDS, so they are kept up to    *)
(* TTL_SECONDS + 1.                                                        *)
(***************************************************************************)
EXTENDS Integers, Sequences, FiniteSets, TLC

\* ---------------------------------------------------------------- bounds
NRunners == 2
NJobs == 2
\* exceptions (store errors, a lookup that raises) over the whole run
MaxErrors == 1

\* ------------------------------------------------------ program constants
MAX_ATTEMPTS == 2
TTL_SECONDS == 1

Runners == 1..NRunners
Jobs == 1..NJobs
NoJob == 0
NoRunner == 0

\* -------------------------------------------------- documento helpers
Digits == {"0", "1", "2", "3", "4", "5", "6", "7", "8", "9"}
UpperLetters == {"M", "G", "S", "P", "A"}
Separators == {"-", "/", " "}

RECURSIVE only_digits(_)
only_digits(s) ==
    IF s = <<>> THEN <<>>
    ELSE IF Head(s) \in Digits THEN <<Head(s)>> \o only_digits(Tail(s))
    ELSE only_digits(Tail(s))

RECURSIVE lstrip(_)
lstrip(s) == IF s # <<>> /\ Head(s) = " " THEN lstrip(Tail(s)) ELSE s

RECURSIVE rstrip(_)
rstrip(s) ==
    IF s # <<>> /\ s[Len(s)] = " " THEN rstrip(SubSeq(s, 1, Len(s) - 1)) ELSE s

strip(s) == rstrip(lstrip(s))

ToUpper(c) ==
    CASE c = "m" -> "M"
      [] c = "g" -> "G"
      [] c = "s" -> "S"
      [] c = "p" -> "P"
      [] c = "a" -> "A"
      [] OTHER -> c

upper(s) == [i \in 1..Len(s) |-> ToUpper(s[i])]

NoUf == <<>>

\* (number, uf): the regex ^(.+?)(?:-|/|\s)([A-Z]{2})$ on the stripped and
\* upper-cased value
split_number_uf(raw) ==
    LET s == upper(strip(raw))
        n == Len(s)
    IN  IF s = <<>> THEN [num |-> <<>>, uf |-> NoUf]
        ELSE IF /\ n >= 4
                /\ s[n] \in UpperLetters
                /\ s[n - 1] \in UpperLetters
                /\ s[n - 2] \in Separators
        THEN [num |-> only_digits(SubSeq(s, 1, n - 3)), uf |-> SubSeq(s, n - 1, n)]
        ELSE [num |-> only_digits(s), uf |-> NoUf]

NumUf(num, uf) == num \o <<"-">> \o uf

\* add(v) of collect_identifiers_from_result
IdsOfValue(v) ==
    IF v = <<>> THEN {}
    ELSE LET p == split_number_uf(v)
         IN  IF p.num = <<>> THEN {}
             ELSE {p.num} \cup (IF p.uf # NoUf THEN {NumUf(p.num, p.uf)} ELSE {})

\* dados is the set of identifier values of the profile (crm, rqe, crefito
\* and their lists)
collect_identifiers_from_result(dados) == UNION {IdsOfValue(v) : v \in dados}

\* the same if an expected value with a region matched only with its region
match_document_strict(expected, extracted_ids) ==
    IF expected = <<>> THEN FALSE
    ELSE LET p == split_number_uf(expected)
         IN  IF p.uf # NoUf THEN NumUf(p.num, p.uf) \in extracted_ids
             ELSE p.num \in extracted_ids

\* the same if every extracted identifier had to be the expected one
match_document_vacuous(expected, extracted_ids) ==
    IF expected = <<>> THEN FALSE
    ELSE LET p == split_number_uf(expected)
         IN  \A id \in extracted_ids : id \in {p.num, NumUf(p.num, p.uf)}

match_document(expected, extracted_ids) ==
    IF expected = <<>> THEN FALSE
    ELSE LET p == split_number_uf(expected)
         IN  IF p.uf # NoUf /\ NumUf(p.num, p.uf) \in extracted_ids THEN TRUE
             ELSE p.num \in extracted_ids

\* ------------------------------------------------------------ the data
Members == 1..NJobs
NoPhone == ""
Phone1 == "5511999990001"

Doc7MG == <<"7", "-", "M", "G">>
Doc7 == <<"7">>
Doc9MG == <<"9", "-", "M", "G">>
NoDoc == <<>>

\* the identifier values a profile found by buscar_sbcp may carry
ProfileValues == {Doc7, Doc9MG}

PENDING == "PENDING"
RUNNING == "RUNNING"
SUCCEEDED == "SUCCEEDED"
FAILED == "FAILED"
CANCELLED == "CANCELLED"
Statuses == {PENDING, RUNNING, SUCCEEDED, FAILED, CANCELLED}

FLOW_APROVADO == "FLOW_APROVADO"
FLOW_PENDENTE == "FLOW_PENDENTE"

None == "None"
NoWrite == [status |-> "NoWrite", last_error |-> None]

VARIABLES
    jobs,       \* validations_jobs: id -> [member_id, status, attempts, age, last_error]
    members,    \* membersnextlevel: id -> [phone, doc, validacao_acesso, portal_validado]
    vlog,       \* validations_log: member id -> number of committed entries
    lock,       \* the transaction (Runner) holding the row lock of each job
    tx,         \* each Runner's open transaction: [writes, logs]
    w,          \* each Runner's local variables and position in work_loop
    sent,       \* BotConversa flows delivered: job id -> flow -> how many
    cademi,     \* jobs for which the Cademi postback was delivered
    errors,     \* exceptions raised so far
    cancelled_pending, \* history: the jobs cancelled while they were PENDING
    raw,        \* documento helpers: the raw identifier given to a helper
    extracted,  \* documento helpers: the identifiers given to match_document
    ret         \* documento helpers: the helper last called and what it returned

\* the variables of the documento helpers called on their own
docvars == <<raw, extracted, ret>>

vars == <<jobs, members, vlog, lock, tx, w, sent, cademi, errors, cancelled_pending,
          raw, extracted, ret>>

\* no helper called yet
NoRet == [op |-> "none", val |-> None]

NoTx == [writes |-> [j \in Jobs |-> NoWrite], logs |-> 0]

Idle ==
    [pc |-> "poll", job_id |-> NoJob, attempts |-> 0, elapsed |-> 0,
     ok |-> FALSE, timed_out |-> FALSE, status_log |-> "init",
     last_error |-> None, looked |-> FALSE, dados |-> {},
     succeeded_seen |-> FALSE]

\* What Intake (webflow_payloads.py) is sent: every submission names a
\* member (by e-mail), whose metadata carries the phone and the document.
\*   Duplicates: one member submits again and again
\*   SamePhone:  different members (e-mails) give the same phone
\*   NoPhone:    only the first member gives a phone
\*   NoDoc:      the first member gives no document
Submissions ==
    {[member_id |-> [j \in Jobs |-> 1],
      phone |-> [m \in Members |-> Phone1],
      doc |-> [m \in Members |-> Doc7MG]],
     [member_id |-> [j \in Jobs |-> j],
      phone |-> [m \in Members |-> Phone1],
      doc |-> [m \in Members |-> Doc7MG]],
     [member_id |-> [j \in Jobs |-> j],
      phone |-> [m \in Members |-> IF m = 1 THEN Phone1 ELSE NoPhone],
      doc |-> [m \in Members |-> Doc7MG]],
     [member_id |-> [j \in Jobs |-> j],
      phone |-> [m \in Members |-> Phone1],
      doc |-> [m \in Members |-> IF m = 1 THEN NoDoc ELSE Doc7MG]]}

\* a row of validations_jobs that Intake has not inserted yet
ABSENT == "ABSENT"

Init ==
    /\ \E s \in Submissions :
          /\ jobs = [j \in Jobs |->
                       [member_id |-> s.member_id[j], status |-> ABSENT,
                        attempts |-> 0, age |-> 0, last_error |-> None]]
          /\ members = [m \in Members |->
                          [phone |-> s.phone[m], doc |-> s.doc[m],
                           validacao_acesso |-> None, portal_validado |-> None]]
    /\ vlog = [m \in Members |-> 0]
    /\ lock = [j \in Jobs |-> NoRunner]
    /\ tx = [r \in Runners |-> NoTx]
    /\ w = [r \in Runners |-> Idle]
    /\ sent = [j \in Jobs |-> [f \in {FLOW_APROVADO, FLOW_PENDENTE} |-> 0]]
    /\ cademi = {}
    /\ errors = 0
    /\ cancelled_pending = {}
    /\ raw = <<>>
    /\ extracted = {}
    /\ ret = NoRet

\* enqueue_validation_job: the next id, PENDING, attempts 0
enqueue_validation_job ==
    /\ \E j \in Jobs :
          /\ jobs[j].status = ABSENT
          /\ \A k \in Jobs : k < j => jobs[k].status # ABSENT
          /\ jobs' = [jobs EXCEPT ![j].status = PENDING]
    /\ UNCHANGED <<members, vlog, lock, tx, w, sent, cademi, errors, cancelled_pending>>
    /\ UNCHANGED docvars

PhoneOfJob(j) == members[jobs[j].member_id].phone

\* the same if the exception were not caught in the loop: the transaction
\* is rolled back and the process ends
RollbackAndStop(r) ==
    /\ lock' = [j \in Jobs |-> IF lock[j] = r THEN NoRunner ELSE lock[j]]
    /\ tx' = [tx EXCEPT ![r] = NoTx]
    /\ w' = [w EXCEPT ![r].pc = "stopped"]

\* leaving a `with conn:` block by an exception, or a failed statement
\* outside one: the open transaction is rolled back and the loop sleeps
Rollback(r) ==
    /\ lock' = [j \in Jobs |-> IF lock[j] = r THEN NoRunner ELSE lock[j]]
    /\ tx' = [tx EXCEPT ![r] = NoTx]
    /\ w' = [w EXCEPT ![r] = Idle]

\* ------------------------------------------------------------ watchdog
\* a watchdog that spared the jobs a Runner is still working on
StaleAndAbandoned(j) ==
    /\ jobs[j].status = RUNNING
    /\ jobs[j].age > TTL_SECONDS
    /\ \A r \in Runners : w[r].job_id # j

Stale(j) == jobs[j].status = RUNNING /\ jobs[j].age > TTL_SECONDS

\* a poll cycle without the watchdog of line 345
poll_without_watchdog(r) ==
    /\ w[r].pc = "poll"
    /\ w' = [w EXCEPT ![r].pc = "fetch"]
    /\ UNCHANGED <<jobs, members, vlog, lock, tx, sent, cademi, errors, cancelled_pending>>
    /\ UNCHANGED docvars

requeue_stale_running_jobs(r) ==
    /\ w[r].pc = "poll"
    /\ \A j \in Jobs : Stale(j) => lock[j] = NoRunner
    /\ jobs' = [j \in Jobs |->
                  IF Stale(j)
                  THEN [jobs[j] EXCEPT !.status = PENDING,
                                       !.last_error = "ttl_requeue", !.age = 0]
                  ELSE jobs[j]]
    /\ w' = [w EXCEPT ![r].pc = "fetch"]
    /\ UNCHANGED <<members, vlog, lock, tx, sent, cademi, errors, cancelled_pending>>
    /\ UNCHANGED docvars

\* --------------------------------------------------------------- claim
\* the same SELECT without SKIP LOCKED taking effect
ClaimableIgnoringLocks(r) == {j \in Jobs : jobs[j].status = PENDING}

\* the rows SELECT .. WHERE status='PENDING' .. FOR UPDATE SKIP LOCKED sees
Claimable(r) == {j \in Jobs : jobs[j].status = PENDING /\ lock[j] = NoRunner}

Lowest(S) == CHOOSE j \in S : \A k \in S : j <= k

fetch_next_job(r) ==
    /\ w[r].pc = "fetch"
    /\ IF Claimable(r) = {}
       THEN /\ w' = [w EXCEPT ![r] = Idle]
            /\ UNCHANGED lock
       ELSE LET j == Lowest(Claimable(r))
            IN  /\ lock' = [lock EXCEPT ![j] = r]
                /\ w' = [w EXCEPT ![r].pc = "mark", ![r].job_id = j,
                                  ![r].attempts = jobs[j].attempts]
    /\ UNCHANGED <<jobs, members, vlog, tx, sent, cademi, errors, cancelled_pending>>
    /\ UNCHANGED docvars

\* attempts >= MAX_ATTEMPTS: FAILED without running (lines 361-364)
FailExhausted(r) ==
    /\ w[r].pc = "mark"
    /\ w[r].attempts >= MAX_ATTEMPTS
    /\ LET j == w[r].job_id
       IN  /\ jobs' = [jobs EXCEPT ![j].status = FAILED,
                                   ![j].last_error = "tentativas_excedidas",
                                   ![j].age = 0]
           /\ vlog' = [vlog EXCEPT ![jobs[j].member_id] = @ + 1]
    /\ lock' = [j \in Jobs |-> IF lock[j] = r THEN NoRunner ELSE lock[j]]
    /\ w' = [w EXCEPT ![r] = Idle]
    /\ UNCHANGED <<members, tx, sent, cademi, errors, cancelled_pending>>
    /\ UNCHANGED docvars

\* the claim without the check of line 361
mark_running_unchecked(r) ==
    /\ w[r].pc = "mark"
    /\ LET j == w[r].job_id
       IN  jobs' = [jobs EXCEPT ![j].status = RUNNING,
                                ![j].attempts = w[r].attempts + 1,
                                ![j].age = 0]
    /\ lock' = [j \in Jobs |-> IF lock[j] = r THEN NoRunner ELSE lock[j]]
    /\ w' = [w EXCEPT ![r].pc = "lookup", ![r].elapsed = 0]
    /\ UNCHANGED <<members, vlog, tx, sent, cademi, errors, cancelled_pending>>
    /\ UNCHANGED docvars

mark_running(r) ==
    /\ w[r].pc = "mark"
    /\ w[r].attempts < MAX_ATTEMPTS
    /\ LET j == w[r].job_id
       IN  jobs' = [jobs EXCEPT ![j].status = RUNNING,
                                ![j].attempts = w[r].attempts + 1,
                                ![j].age = 0]
    /\ lock' = [j \in Jobs |-> IF lock[j] = r THEN NoRunner ELSE lock[j]]
    /\ w' = [w EXCEPT ![r].pc = "lookup", ![r].elapsed = 0]
    /\ UNCHANGED <<members, vlog, tx, sent, cademi, errors, cancelled_pending>>
    /\ UNCHANGED docvars

\* ----------------------------------------------------------------- run
Outcome(ok, status_log, last_error, looked, dados) ==
    [ok |-> ok, status_log |-> status_log, last_error |-> last_error,
     looked |-> looked, dados |-> dados]

\* lines 394-409 on a result of buscar_sbcp that carries the profile dados
Matched(expected_doc, dados) ==
    LET is_match == match_document(expected_doc, collect_identifiers_from_result(dados))
    IN  IF is_match THEN Outcome(TRUE, "ok", None, TRUE, dados)
        ELSE Outcome(FALSE, "numero_registro_invalido", None, TRUE, dados)

\* the same if the lookup were made whatever the document is
RunOutcomesLookingAnyway(expected_doc) ==
    {Outcome(FALSE, "sem_resultados", None, TRUE, {})}
    \cup {Matched(expected_doc, dados) : dados \in SUBSET ProfileValues}

\* lines 375-409: what one run can come to without an exception, for the
\* document of the member
RunOutcomes(expected_doc) ==
    IF expected_doc = <<>>
    THEN {Outcome(FALSE, "sem_documento", None, FALSE, {})}
    ELSE {Outcome(FALSE, "sem_resultados", None, TRUE, {})}
         \cup {Matched(expected_doc, dados) : dados \in SUBSET ProfileValues}

\* the same if the handlers left the result of the lookup as it was
RunErrorsKeepingResult(expected_doc) ==
    {Outcome(FALSE, "db_erro", "db_erro", FALSE, {})}
    \cup (IF expected_doc = <<>> THEN {}
          ELSE {Outcome(FALSE, "error_execucao", "exec_erro", TRUE, {}),
                Outcome(TRUE, "match_erro", "match_erro", TRUE, {})})

\* .. and with one: pick_member_document raises (line 384), or buscar_sbcp
\* does (line 391), or the matching of its result does (line 409)
RunErrors(expected_doc) ==
    {Outcome(FALSE, "db_erro", "db_erro", FALSE, {})}
    \cup (IF expected_doc = <<>> THEN {}
          ELSE {Outcome(FALSE, "error_execucao", "exec_erro", TRUE, {}),
                Outcome(FALSE, "match_erro", "match_erro", TRUE, {})})

TimedOut(elapsed) == elapsed > TTL_SECONDS

\* UPDATE membersnextlevel SET validacao_acesso, portal_validado (fonte)
update_member_after_result(member, ok) ==
    [member EXCEPT !.validacao_acesso = IF ok THEN "aprovado" ELSE "pendente",
                   !.portal_validado = "sbcp"]

\* lines 369-418: read the document, look up, match, measure the elapsed
\* time, update the member
RunJob(r) ==
    /\ w[r].pc = "lookup"
    /\ LET m == jobs[w[r].job_id].member_id
           expected_doc == strip(members[m].doc)
       IN  \E o \in RunOutcomes(expected_doc) :
              /\ members' = [members EXCEPT ![m] = update_member_after_result(@, o.ok)]
              /\ w' = [w EXCEPT ![r].pc = "finalize",
                                ![r].ok = o.ok,
                                ![r].status_log = o.status_log,
                                ![r].last_error = o.last_error,
                                ![r].looked = o.looked,
                                ![r].dados = o.dados,
                                ![r].timed_out = TimedOut(w[r].elapsed),
                                ![r].elapsed = 0]
    /\ UNCHANGED <<jobs, vlog, lock, tx, sent, cademi, errors, cancelled_pending>>
    /\ UNCHANGED docvars

\* the same, but pick_member_document or buscar_sbcp raises
RunJobError(r) ==
    /\ w[r].pc = "lookup"
    /\ errors < MaxErrors
    /\ errors' = errors + 1
    /\ LET m == jobs[w[r].job_id].member_id
           expected_doc == strip(members[m].doc)
       IN  \E o \in RunErrors(expected_doc) :
              /\ members' = [members EXCEPT ![m] = update_member_after_result(@, o.ok)]
              /\ w' = [w EXCEPT ![r].pc = "finalize",
                                ![r].ok = o.ok,
                                ![r].status_log = o.status_log,
                                ![r].last_error = o.last_error,
                                ![r].looked = o.looked,
                                ![r].dados = o.dados,
                                ![r].timed_out = TimedOut(w[r].elapsed),
                                ![r].elapsed = 0]
    /\ UNCHANGED <<jobs, vlog, lock, tx, sent, cademi, cancelled_pending>>
    /\ UNCHANGED docvars

\* the same, but update_member_after_result raises (line 418)
RunJobMemberError(r) ==
    /\ w[r].pc = "lookup"
    /\ errors < MaxErrors
    /\ errors' = errors + 1
    /\ LET expected_doc == strip(members[jobs[w[r].job_id].member_id].doc)
       IN  \E o \in RunOutcomes(expected_doc) :
              w' = [w EXCEPT ![r].pc = "finalize",
                             ![r].ok = o.ok,
                             ![r].status_log = o.status_log,
                             ![r].last_error = "db_erro",
                             ![r].looked = o.looked,
                                ![r].dados = o.dados,
                             ![r].timed_out = TimedOut(w[r].elapsed),
                             ![r].elapsed = 0]
    /\ UNCHANGED <<jobs, members, vlog, lock, tx, sent, cademi, cancelled_pending>>
    /\ UNCHANGED docvars

\* ------------------------------------------------------- finalization
WithTimeout(last_error) ==
    IF last_error = None THEN "timeout_ttl"
    ELSE IF last_error = "db_erro" THEN "db_erro; timeout_ttl"
    ELSE IF last_error = "exec_erro" THEN "exec_erro; timeout_ttl"
    ELSE "match_erro; timeout_ttl"

\* the decision if a late match were trusted
DecisionTrustingLateMatch(r) ==
    IF w[r].ok
    THEN [status |-> SUCCEEDED, last_error |-> None]
    ELSE IF w[r].attempts + 1 < MAX_ATTEMPTS
    THEN [status |-> PENDING, last_error |-> "retry"]
    ELSE [status |-> FAILED, last_error |-> w[r].status_log]

\* the status and last_error the run passes to finalize_job (lines 425-456)
Decision(r) ==
    IF w[r].ok /\ ~w[r].timed_out
    THEN [status |-> SUCCEEDED, last_error |-> None]
    ELSE LET last_error == IF w[r].timed_out THEN WithTimeout(w[r].last_error)
                           ELSE w[r].last_error
             status_log == IF w[r].timed_out THEN "timeout_ttl" ELSE w[r].status_log
         IN  IF w[r].attempts + 1 < MAX_ATTEMPTS
             THEN [status |-> PENDING,
                   last_error |-> IF last_error # None THEN last_error ELSE "retry"]
             ELSE [status |-> FAILED,
                   last_error |-> IF last_error # None THEN last_error ELSE status_log]

\* UPDATE validations_jobs SET status, last_error, updated_at WHERE id = job_id:
\* the row is written whatever its status is; the statement waits while
\* another transaction holds the row
CanWrite(r, j) == lock[j] \in {NoRunner, r}

\* history: a job of the same non-empty phone is SUCCEEDED in the table
SucceededForPhone(j) ==
    /\ PhoneOfJob(j) # NoPhone
    /\ \E k \in Jobs : PhoneOfJob(k) = PhoneOfJob(j) /\ jobs[k].status = SUCCEEDED

\* the same if a run that requeues its job went on to the pending flow
finalize_job_notifying_retry(r) ==
    /\ w[r].pc = "finalize"
    /\ CanWrite(r, w[r].job_id)
    /\ LET j == w[r].job_id
           d == Decision(r)
       IN  /\ lock' = [lock EXCEPT ![j] = r]
           /\ tx' = [tx EXCEPT ![r].writes[j] = d, ![r].logs = 1]
           /\ w' = [w EXCEPT ![r].pc = CASE d.status = SUCCEEDED -> "cancel"
                                         [] d.status = FAILED -> "check"
                                         [] OTHER -> "notify_fail",
                             ![r].status_log = "init",
                             ![r].last_error = None,
                             ![r].looked = FALSE,
                             ![r].dados = {},
                             ![r].attempts = 0,
                             ![r].succeeded_seen =
                                 d.status = FAILED /\ SucceededForPhone(j)]
    /\ UNCHANGED <<jobs, members, vlog, sent, cademi, errors, cancelled_pending>>
    /\ UNCHANGED docvars

finalize_job(r) ==
    /\ w[r].pc = "finalize"
    /\ CanWrite(r, w[r].job_id)
    /\ LET j == w[r].job_id
           d == Decision(r)
       IN  /\ lock' = [lock EXCEPT ![j] = r]
           /\ tx' = [tx EXCEPT ![r].writes[j] = d, ![r].logs = 1]
           /\ w' = [w EXCEPT ![r].pc = CASE d.status = SUCCEEDED -> "cancel"
                                         [] d.status = FAILED -> "check"
                                         [] OTHER -> "commit",
                             ![r].status_log = "init",
                             ![r].last_error = None,
                             ![r].looked = FALSE,
                             ![r].dados = {},
                             ![r].attempts = 0,
                             ![r].succeeded_seen =
                                 d.status = FAILED /\ SucceededForPhone(j)]
    /\ UNCHANGED <<jobs, members, vlog, sent, cademi, errors, cancelled_pending>>
    /\ UNCHANGED docvars

\* the same if the UPDATE had no condition on the status
SiblingsOfAnyStatus(phone, exclude_job_id) ==
    IF phone = NoPhone THEN {}
    ELSE {j \in Jobs : /\ PhoneOfJob(j) = phone
                       /\ j # exclude_job_id
                       /\ jobs[j].status # ABSENT}

\* the rows the UPDATE of cancel_other_jobs_for_phone changes
Siblings(phone, exclude_job_id) ==
    IF phone = NoPhone THEN {}
    ELSE {j \in Jobs : /\ PhoneOfJob(j) = phone
                       /\ j # exclude_job_id
                       /\ jobs[j].status \in {PENDING, RUNNING}}

cancel_other_jobs_for_phone(r) ==
    /\ w[r].pc = "cancel"
    /\ LET S == Siblings(PhoneOfJob(w[r].job_id), w[r].job_id)
       IN  /\ \A j \in S : CanWrite(r, j)
           /\ lock' = [j \in Jobs |-> IF j \in S THEN r ELSE lock[j]]
           /\ tx' = [tx EXCEPT ![r].writes =
                       [j \in Jobs |->
                          IF j \in S
                          THEN [status |-> CANCELLED,
                                last_error |-> "cancelled_by_other_success"]
                          ELSE @[j]]]
    /\ w' = [w EXCEPT ![r].pc = "notify_ok"]
    /\ UNCHANGED <<jobs, members, vlog, sent, cademi, errors, cancelled_pending>>
    /\ UNCHANGED docvars

\* bc_send_flow(sid, flow) returning True for the member of job j
Delivered(flow, j) == [sent EXCEPT ![j][flow] = @ + 1]

\* the same if a flow that is not delivered raised out of the finalization
NotifyApprovedOrRaise(r) ==
    /\ w[r].pc = "notify_ok"
    /\ LET j == w[r].job_id
       IN  \/ /\ PhoneOfJob(j) # NoPhone
              /\ sent' = Delivered(FLOW_APROVADO, j)
              /\ cademi' \in {cademi, cademi \cup {j}}
              /\ w' = [w EXCEPT ![r].pc = "commit"]
              /\ UNCHANGED <<lock, tx>>
           \/ /\ sent' = sent
              /\ cademi' = cademi
              /\ Rollback(r)
    /\ UNCHANGED <<jobs, members, vlog, errors, cancelled_pending>>
    /\ UNCHANGED docvars

\* lines 434-443: the approved flow and the Cademi postback; each may fail
\* to be delivered; without a phone there is no subscriber to send to
NotifyApproved(r) ==
    /\ w[r].pc = "notify_ok"
    /\ LET j == w[r].job_id
       IN  /\ \/ sent' = sent
              \/ /\ PhoneOfJob(j) # NoPhone
                 /\ sent' = Delivered(FLOW_APROVADO, j)
           /\ \/ cademi' = cademi
              \/ cademi' = cademi \cup {j}
    /\ w' = [w EXCEPT ![r].pc = "commit"]
    /\ UNCHANGED <<jobs, members, vlog, lock, tx, errors, cancelled_pending>>
    /\ UNCHANGED docvars

\* what the run's own transaction reads: the committed rows and its writes
StatusSeenBy(r, j) ==
    IF tx[r].writes[j] # NoWrite THEN tx[r].writes[j].status ELSE jobs[j].status

exists_succeeded_for_phone(r, phone) ==
    /\ phone # NoPhone
    /\ \E j \in Jobs : PhoneOfJob(j) = phone /\ StatusSeenBy(r, j) = SUCCEEDED

\* line 459
CheckSucceeded(r) ==
    /\ w[r].pc = "check"
    /\ w' = [w EXCEPT ![r].pc =
                IF exists_succeeded_for_phone(r, PhoneOfJob(w[r].job_id))
                THEN "commit" ELSE "notify_fail"]
    /\ UNCHANGED <<jobs, members, vlog, lock, tx, sent, cademi, errors, cancelled_pending>>
    /\ UNCHANGED docvars

\* lines 460-462
NotifyPending(r) ==
    /\ w[r].pc = "notify_fail"
    /\ LET j == w[r].job_id
       IN  \/ sent' = sent
           \/ /\ PhoneOfJob(j) # NoPhone
              /\ sent' = Delivered(FLOW_PENDENTE, j)
    /\ w' = [w EXCEPT ![r].pc = "commit"]
    /\ UNCHANGED <<jobs, members, vlog, lock, tx, cademi, errors, cancelled_pending>>
    /\ UNCHANGED docvars

\* the same if the finalization wrote no validations_log row
CommitWithoutLog(r) ==
    /\ w[r].pc = "commit"
    /\ jobs' = [j \in Jobs |->
                  IF tx[r].writes[j] # NoWrite
                  THEN [jobs[j] EXCEPT !.status = tx[r].writes[j].status,
                                       !.last_error = tx[r].writes[j].last_error,
                                       !.age = 0]
                  ELSE jobs[j]]
    /\ vlog' = vlog
    /\ lock' = [j \in Jobs |-> IF lock[j] = r THEN NoRunner ELSE lock[j]]
    /\ tx' = [tx EXCEPT ![r] = NoTx]
    /\ w' = [w EXCEPT ![r] = Idle]
    /\ cancelled_pending' = cancelled_pending \cup
          {j \in Jobs : tx[r].writes[j].status = CANCELLED /\ jobs[j].status = PENDING}
    /\ UNCHANGED <<members, sent, cademi, errors>>
    /\ UNCHANGED docvars

\* leaving the `with conn:` block of line 421: COMMIT
Commit(r) ==
    /\ w[r].pc = "commit"
    /\ jobs' = [j \in Jobs |->
                  IF tx[r].writes[j] # NoWrite
                  THEN [jobs[j] EXCEPT !.status = tx[r].writes[j].status,
                                       !.last_error = tx[r].writes[j].last_error,
                                       !.age = 0]
                  ELSE jobs[j]]
    /\ vlog' = [vlog EXCEPT ![jobs[w[r].job_id].member_id] = @ + tx[r].logs]
    /\ lock' = [j \in Jobs |-> IF lock[j] = r THEN NoRunner ELSE lock[j]]
    /\ tx' = [tx EXCEPT ![r] = NoTx]
    /\ w' = [w EXCEPT ![r] = Idle]
    /\ cancelled_pending' = cancelled_pending \cup
          {j \in Jobs : tx[r].writes[j].status = CANCELLED /\ jobs[j].status = PENDING}
    /\ UNCHANGED <<members, sent, cademi, errors>>
    /\ UNCHANGED docvars

\* a store operation raises before the job is claimed (lines 345-367): the
\* claim, if one is open, is rolled back; the Runner sleeps and polls again
ClaimError(r) ==
    /\ w[r].pc \in {"poll", "fetch", "mark"}
    /\ Rollback(r)
    /\ UNCHANGED <<jobs, members, vlog, sent, cademi, errors, cancelled_pending>>
    /\ UNCHANGED docvars

\* a store operation of the finalization raises (lines 421-464, caught at
\* 466): the transaction is rolled back; the Runner sleeps and polls again
FinalizeError(r) ==
    /\ w[r].pc \in {"finalize", "cancel", "notify_ok", "check", "notify_fail", "commit"}
    /\ errors < MaxErrors
    /\ errors' = errors + 1
    /\ Rollback(r)
    /\ UNCHANGED <<jobs, members, vlog, sent, cademi, cancelled_pending>>
    /\ UNCHANGED docvars

\* ---------------------------------------------------------------- time
Later(t) == IF t > TTL_SECONDS THEN t ELSE t + 1

Tick ==
    /\ jobs' = [j \in Jobs |->
                  IF jobs[j].status = RUNNING
                  THEN [jobs[j] EXCEPT !.age = Later(@)] ELSE jobs[j]]
    /\ w' = [r \in Runners |->
                IF w[r].pc = "lookup"
                THEN [w[r] EXCEPT !.elapsed = Later(@)] ELSE w[r]]
    /\ UNCHANGED <<members, vlog, lock, tx, sent, cademi, errors, cancelled_pending>>
    /\ UNCHANGED docvars

Next ==
    \/ enqueue_validation_job
    \/ \E r \in Runners :
          \/ requeue_stale_running_jobs(r)
          \/ fetch_next_job(r)
          \/ FailExhausted(r)
          \/ mark_running(r)
          \/ RunJob(r)
          \/ finalize_job(r)
          \/ cancel_other_jobs_for_phone(r)
          \/ NotifyApproved(r)
          \/ CheckSucceeded(r)
          \/ NotifyPending(r)
          \/ Commit(r)
          \/ ClaimError(r)
    \/ Tick

\* the Runners, the watchdog and Intake, when no exception is raised after
\* a job is claimed
Spec == Init /\ [][Next]_vars

NextErr ==
    \/ Next
    \/ \E r \in Runners :
          \/ RunJobError(r)
          \/ RunJobMemberError(r)
          \/ FinalizeError(r)

\* the submissions of two members who give the same phone, the first of
\* them without a document
InitErr == Init /\ members[1].doc = NoDoc

\* the same with up to MaxErrors exceptions raised while a job is run or
\* finalized
SpecErr == InitErr /\ [][NextErr]_vars

\* ------------------------------------------------------------ liveness
\* A store in which the earlier submissions are finished (each ran
\* MAX_ATTEMPTS times without a match and is FAILED, the failure flow was
\* sent) and the last one is still to come.
Finished(j) == j < NJobs

InitLive ==
    /\ jobs = [j \in Jobs |->
                 IF Finished(j)
                 THEN [member_id |-> j, status |-> FAILED, attempts |-> MAX_ATTEMPTS,
                       age |-> 0, last_error |-> "numero_registro_invalido"]
                 ELSE [member_id |-> j, status |-> ABSENT, attempts |-> 0,
                       age |-> 0, last_error |-> None]]
    /\ members = [m \in Members |->
                    IF Finished(m)
                    THEN [phone |-> Phone1, doc |-> Doc7MG,
                          validacao_acesso |-> "pendente", portal_validado |-> "sbcp"]
                    ELSE [phone |-> Phone1, doc |-> Doc7MG,
                          validacao_acesso |-> None, portal_validado |-> None]]
    /\ vlog = [m \in Members |-> IF Finished(m) THEN MAX_ATTEMPTS ELSE 0]
    /\ lock = [j \in Jobs |-> NoRunner]
    /\ tx = [r \in Runners |-> NoTx]
    /\ w = [r \in Runners |-> Idle]
    /\ sent = [j \in Jobs |->
                 [f \in {FLOW_APROVADO, FLOW_PENDENTE} |->
                    IF Finished(j) /\ f = FLOW_PENDENTE THEN 1 ELSE 0]]
    /\ cademi = {}
    /\ errors = 0
    /\ cancelled_pending = {}
    /\ raw = <<>>
    /\ extracted = {}
    /\ ret = NoRet

\* a Runner's process is scheduled and its store statements return, or
\* raise; nothing is assumed of its lookup (buscar_sbcp), which may hang
\* for ever
RunnerStep(r) ==
    \/ requeue_stale_running_jobs(r)
    \/ fetch_next_job(r)
    \/ FailExhausted(r)
    \/ mark_running(r)
    \/ finalize_job(r)
    \/ cancel_other_jobs_for_phone(r)
    \/ NotifyApproved(r)
    \/ CheckSucceeded(r)
    \/ NotifyPending(r)
    \/ Commit(r)

Fairness == WF_vars(Tick) /\ \A r \in Runners : WF_vars(RunnerStep(r))

SpecLive == InitLive /\ [][NextErr]_vars /\ Fairness

\* the store is available: no store operation raises
NextAvail ==
    \/ enqueue_validation_job
    \/ \E r \in Runners : RunnerStep(r) \/ RunJob(r)
    \/ Tick

SpecAvail == InitLive /\ [][NextAvail]_vars /\ Fairness

\* ------------------------------------------- the documento helpers alone
\* the longest raw identifier
MaxLen == 4

\* the characters of a raw identifier: digits, region letters in both
\* cases, separators and blanks
DocChars == {"7", "9", "M", "G", "m", "-", " "}

RECURSIVE StringsUpTo(_)
StringsUpTo(n) ==
    IF n = 0 THEN {<<>>}
    ELSE LET S == StringsUpTo(n - 1)
         IN  S \cup {Append(t, c) : t \in {u \in S : Len(u) = n - 1}, c \in DocChars}

RawStrings == StringsUpTo(MaxLen)

\* the identifiers a set handed to match_document is drawn from
IdPool == {<<>>, <<"7">>, <<"7", "-", "M", "G">>, <<"9", "-", "G", "M">>}

\* the string that is compared: number, or number-uf when there is a uf
\* (the f"{num}-{uf}" of lines 206 and 223)
Canonical(p) == IF p.uf = NoUf THEN p.num ELSE NumUf(p.num, p.uf)

InitDoc ==
    /\ jobs = [j \in Jobs |->
                 [member_id |-> j, status |-> ABSENT, attempts |-> 0, age |-> 0,
                  last_error |-> None]]
    /\ members = [m \in Members |->
                    [phone |-> Phone1, doc |-> NoDoc,
                     validacao_acesso |-> None, portal_validado |-> None]]
    /\ vlog = [m \in Members |-> 0]
    /\ lock = [j \in Jobs |-> NoRunner]
    /\ tx = [r \in Runners |-> NoTx]
    /\ w = [r \in Runners |-> Idle]
    /\ sent = [j \in Jobs |-> [f \in {FLOW_APROVADO, FLOW_PENDENTE} |-> 0]]
    /\ cademi = {}
    /\ errors = 0
    /\ cancelled_pending = {}
    /\ raw \in RawStrings
    /\ extracted \in SUBSET IdPool
    /\ ret = NoRet

\* the variables of the worker
workervars == <<jobs, members, vlog, lock, tx, w, sent, cademi, errors, cancelled_pending>>

\* split_number_uf(raw); the identifier is then kept in its compared form
CallSplit ==
    /\ ret' = [op |-> "split_number_uf", val |-> split_number_uf(raw)]
    /\ raw' = Canonical(split_number_uf(raw))
    /\ UNCHANGED <<extracted, workervars>>

\* collect_identifiers_from_result on a profile whose values are `extracted`
CallCollect ==
    /\ ret' = [op |-> "collect_identifiers_from_result", val |-> extracted]
    /\ extracted' = collect_identifiers_from_result(extracted)
    /\ UNCHANGED <<raw, workervars>>

\* match_document(raw, extracted)
CallMatch ==
    /\ ret' = [op |-> "match_document", val |-> match_document(raw, extracted)]
    /\ UNCHANGED <<raw, extracted, workervars>>

\* lines 375-409 for a member whose document is raw
CallRun ==
    /\ \E o \in RunOutcomes(strip(raw)) : ret' = [op |-> "run", val |-> o]
    /\ UNCHANGED <<raw, extracted, workervars>>

NextDoc == CallSplit \/ CallCollect \/ CallMatch \/ CallRun

SpecDoc == InitDoc /\ [][NextDoc]_vars

TypeOK ==
    /\ \A j \in Jobs : jobs[j].status \in Statuses \cup {ABSENT} /\ jobs[j].attempts \in 0..MAX_ATTEMPTS
    /\ \A j \in Jobs : lock[j] \in Runners \cup {NoRunner}

\* =====================================================================
\* The claims
\* =====================================================================

\* the Runners that have claimed job j (mark_running) and have not yet
\* called finalize_job for it
Holders(j) == {r \in Runners : w[r].job_id = j /\ w[r].pc \in {"lookup", "finalize"}}

\* r has fetched job j and is about to mark it
Fetched(r, j) == w[r].pc = "mark" /\ w[r].job_id = j

OnlyPending(j) == {k \in Jobs : jobs[k].status = PENDING} = {j}

RECURSIVE Total(_, _)
Total(S, flow) ==
    IF S = {} THEN 0
    ELSE LET j == CHOOSE k \in S : TRUE
         IN  sent[j][flow] + Total(S \ {j}, flow)

\* the flows delivered for the jobs of one phone
SentFor(phone, flow) == Total({j \in Jobs : PhoneOfJob(j) = phone}, flow)

\* steps of a Runner, told by its position
ClaimStep(r, j) == Fetched(r, j) /\ w'[r].pc = "lookup"
ExhaustedStep(r, j) == Fetched(r, j) /\ w[r].attempts >= MAX_ATTEMPTS /\ w'[r].pc = "poll"
WatchdogStep(r) == w[r].pc = "poll" /\ w'[r].pc = "fetch"
FetchStep(r) == w[r].pc = "fetch" /\ w'[r].pc # "fetch"
FinalizeStep(r) == w[r].pc = "finalize" /\ w'[r].pc \in {"cancel", "check", "commit"}
CancelStep(r) == w[r].pc = "cancel" /\ w'[r].pc = "notify_ok"
CommitStep(r) == w[r].pc = "commit" /\ w'[r].pc = "poll" /\ errors' = errors

\* C1: of the Runners that execute the claim step at the same time, one
\* obtains the job: a fetched job is locked by its Runner, still PENDING and
\* fetched by no other Runner; and a Runner that fetches while another one
\* holds the only PENDING job obtains nothing.
C1_FetchedExclusively ==
    \A r \in Runners, j \in Jobs :
        Fetched(r, j) =>
            /\ lock[j] = r
            /\ jobs[j].status = PENDING
            /\ \A r2 \in Runners \ {r} : ~Fetched(r2, j)

C1_OthersObtainNothing ==
    \A r \in Runners :
        /\ FetchStep(r)
        /\ \E r1 \in Runners \ {r}, j \in Jobs : Fetched(r1, j) /\ OnlyPending(j)
        => w'[r].job_id = NoJob

C1_GoesOnToRun ==
    \A r \in Runners, j \in Jobs : ClaimStep(r, j) => jobs'[j].status = RUNNING

C1_ClaimExclusive ==
    /\ [](C1_FetchedExclusively)
    /\ [][C1_OthersObtainNothing /\ C1_GoesOnToRun]_vars

C1_Witness ==
    \E r1, r2 \in Runners, j \in Jobs :
        r1 # r2 /\ Fetched(r1, j) /\ OnlyPending(j) /\ w[r2].pc = "fetch"

\* C2: for each job at most one Runner is between claiming it and
\* finalizing it.
C2_SingleHolder == \A j \in Jobs : Cardinality(Holders(j)) <= 1

\* C3: once a job is SUCCEEDED or FAILED its status never changes (so it is
\* never PENDING again for fetch_next_job to return).
C3_TerminalLockIn ==
    [][\A j \in Jobs :
          jobs[j].status \in {SUCCEEDED, FAILED} => jobs'[j].status = jobs[j].status]_vars

\* C4: a job that is CANCELLED stays CANCELLED when the Runner that was
\* running it reaches its finalize step.
C4_CancelledStays ==
    [][\A j \in Jobs : jobs[j].status = CANCELLED => jobs'[j].status = CANCELLED]_vars

\* C5: every change of a job's status is one of the transitions of the job
\* state machine, made by the operation the state machine names.
C5_Allowed(j) ==
    LET a == jobs[j].status
        b == jobs'[j].status
    IN  \/ a = ABSENT /\ b = PENDING
        \/ a = PENDING /\ b = RUNNING /\ \E r \in Runners : ClaimStep(r, j)
        \/ /\ a = RUNNING /\ b \in {SUCCEEDED, FAILED, PENDING}
           /\ \E r \in Runners : CommitStep(r) /\ w[r].job_id = j
        \/ a = RUNNING /\ b = PENDING /\ \E r \in Runners : WatchdogStep(r)
        \/ /\ a \in {PENDING, RUNNING} /\ b = CANCELLED
           /\ \E r \in Runners :
                 /\ CommitStep(r)
                 /\ w[r].job_id # j
                 /\ tx[r].writes[w[r].job_id].status = SUCCEEDED
        \/ a = PENDING /\ b = FAILED /\ \E r \in Runners : ExhaustedStep(r, j)

C5_StateMachine ==
    [][\A j \in Jobs : jobs'[j].status # jobs[j].status => C5_Allowed(j)]_vars

\* C6: when a job with a phone is finalized SUCCEEDED, the other jobs of
\* that phone that are PENDING or RUNNING become CANCELLED, and one that was
\* PENDING is never claimed afterwards.
C6_SiblingsCancelled ==
    [][/\ \A r \in Runners :
             CancelStep(r) =>
                \A k \in Jobs \ {w[r].job_id} :
                    /\ PhoneOfJob(w[r].job_id) # NoPhone
                    /\ PhoneOfJob(k) = PhoneOfJob(w[r].job_id)
                    /\ jobs[k].status \in {PENDING, RUNNING}
                    => tx'[r].writes[k].status = CANCELLED
       /\ \A r \in Runners :
             CommitStep(r) =>
                \A k \in Jobs :
                    tx[r].writes[k].status = CANCELLED => jobs'[k].status = CANCELLED
       /\ \A j \in cancelled_pending : jobs'[j].status # RUNNING]_vars

\* C7: among the jobs of one non-empty phone at most one approved flow is
\* ever sent.
C7_OneApproved ==
    \A j \in Jobs :
        PhoneOfJob(j) # NoPhone => SentFor(PhoneOfJob(j), FLOW_APROVADO) <= 1

\* C8: no failure flow is sent for a phone after an approved flow was sent
\* for a job of that phone.
C8_NoPendingAfterApproved ==
    [][\A j \in Jobs :
          sent'[j][FLOW_PENDENTE] > sent[j][FLOW_PENDENTE]
          => SentFor(PhoneOfJob(j), FLOW_APROVADO) = 0]_vars

\* C9: a run that finalized its job FAILED at a moment when a job of the
\* same non-empty phone was SUCCEEDED sends no failure flow for it.
C9_FailureSuppressed ==
    [][\A r \in Runners :
          /\ w[r].pc = "notify_fail"
          /\ sent'[w[r].job_id][FLOW_PENDENTE] > sent[w[r].job_id][FLOW_PENDENTE]
          => ~w[r].succeeded_seen]_vars

\* C10: a run whose elapsed time exceeded TTL_SECONDS is marked timed out
\* and does not finalize its job SUCCEEDED, match or no match: it writes
\* PENDING or FAILED, with the reason timeout_ttl.
TimeoutErrors ==
    {"timeout_ttl", "db_erro; timeout_ttl", "exec_erro; timeout_ttl",
     "match_erro; timeout_ttl"}

Finalized(r) == w[r].pc \in {"cancel", "notify_ok", "check", "notify_fail", "commit"}

C10_MarkedTimedOut ==
    \A r \in Runners :
        w[r].pc = "lookup" /\ w'[r].pc = "finalize" /\ w[r].elapsed > TTL_SECONDS
        => w'[r].timed_out

C10_RetryOrFail ==
    \A r \in Runners :
        Finalized(r) /\ w[r].timed_out =>
            /\ tx[r].writes[w[r].job_id].status \in {PENDING, FAILED}
            /\ tx[r].writes[w[r].job_id].last_error \in TimeoutErrors

C10_LateRunNotSucceeded == [](C10_RetryOrFail) /\ [][C10_MarkedTimedOut]_vars

C10_Witness ==
    \E r \in Runners : Finalized(r) /\ w[r].timed_out /\ w[r].ok

\* the member (Subject) of the job a Runner is working on
MemberOf(r) == jobs[w[r].job_id].member_id

\* C11: a run that ends in a retry or FAILED decision does not leave its
\* Subject approved: when such a run commits, the Subject is approved only
\* if a job of the Subject is SUCCEEDED.
C11_ApprovedOnlyBySuccess ==
    [][\A r \in Runners :
          /\ CommitStep(r)
          /\ tx[r].writes[w[r].job_id].status \in {PENDING, FAILED}
          /\ members'[MemberOf(r)].validacao_acesso = "aprovado"
          => \E k \in Jobs :
                jobs[k].member_id = MemberOf(r) /\ jobs'[k].status = SUCCEEDED]_vars

\* the expected identifier the run reads (line 377)
ExpectedDoc(r) == strip(members[MemberOf(r)].doc)

\* C12: a run for a Subject whose expected identifier is empty makes no
\* lookup and has no match, and its decision is retry or FAILED, never
\* SUCCEEDED.
C12_NoLookup ==
    \A r \in Runners :
        w[r].pc = "lookup" /\ w'[r].pc = "finalize" /\ ExpectedDoc(r) = <<>>
        => ~w'[r].looked /\ ~w'[r].ok

C12_RetryOrFail ==
    \A r \in Runners :
        Finalized(r) /\ ExpectedDoc(r) = <<>>
        => tx[r].writes[w[r].job_id].status \in {PENDING, FAILED}

C12_NoClaimToVerify == [](C12_RetryOrFail) /\ [][C12_NoLookup]_vars

C12_Witness ==
    \E r \in Runners : Finalized(r) /\ ExpectedDoc(r) = <<>>

\* C13: on a failure decision the job is written PENDING if the attempts
\* of this claim are below MAX_ATTEMPTS and FAILED otherwise; a job is
\* FAILED only once it was claimed MAX_ATTEMPTS times, and never claimed
\* more often; and a failing run leaves the Subject not approved.
C13_Decision ==
    \A r \in Runners :
        FinalizeStep(r) /\ (~w[r].ok \/ w[r].timed_out)
        => tx'[r].writes[w[r].job_id].status =
              IF w[r].attempts + 1 < MAX_ATTEMPTS THEN PENDING ELSE FAILED

C13_RunsMaxAttempts ==
    \A j \in Jobs :
        /\ jobs[j].attempts <= MAX_ATTEMPTS
        /\ jobs[j].status = FAILED => jobs[j].attempts = MAX_ATTEMPTS

\* the first run of the only job of a Subject
C13_SubjectStaysPending ==
    \A r \in Runners :
        /\ w[r].pc = "lookup" /\ w'[r].pc = "finalize"
        /\ w[r].attempts = 0
        /\ Cardinality({k \in Jobs : jobs[k].member_id = MemberOf(r)}) = 1
        /\ ~w'[r].ok \/ w'[r].timed_out
        => members'[MemberOf(r)].validacao_acesso # "aprovado"

C13_RetryThenFail ==
    /\ [](C13_RunsMaxAttempts)
    /\ [][C13_Decision /\ C13_SubjectStaysPending]_vars

\* C14: the attempts of a job never decrease, whatever the Runners, the
\* watchdog and the cancellations do.
C14_AttemptsNeverDecrease ==
    [][\A j \in Jobs : jobs'[j].attempts >= jobs[j].attempts]_vars

\* a run that captured fewer attempts than the job has by now
C14_Witness ==
    \E r \in Runners, j \in Jobs :
        /\ w[r].job_id = j /\ w[r].pc \in {"lookup", "finalize"}
        /\ w[r].attempts + 1 < jobs[j].attempts

\* C15: the watchdog sets every job that is RUNNING with updated_at older
\* than the ttl to PENDING with last_error ttl_requeue, and leaves its
\* attempts as they are.
C15_RequeueStale ==
    [][\A r \in Runners :
          WatchdogStep(r) =>
             \A j \in Jobs :
                jobs[j].status = RUNNING /\ jobs[j].age > TTL_SECONDS
                => /\ jobs'[j].status = PENDING
                   /\ jobs'[j].last_error = "ttl_requeue"
                   /\ jobs'[j].attempts = jobs[j].attempts]_vars

C15_Witness ==
    \E j \in Jobs :
        /\ jobs[j].status = PENDING
        /\ jobs[j].last_error = "ttl_requeue"
        /\ jobs[j].attempts >= 1

\* C17: a job fetched with attempts at or above MAX_ATTEMPTS is finalized
\* FAILED (tentativas_excedidas) by the Runner's next step, unless that
\* step is a store error that rolls the claim back: it does not become
\* RUNNING, the Runner makes no lookup for it and its attempts stay.
C17_ExhaustedFailsDirectly ==
    [][\A r \in Runners, j \in Jobs :
          Fetched(r, j) /\ w[r].attempts >= MAX_ATTEMPTS /\ w'[r] # w[r]
          => /\ w'[r].pc = "poll"
             /\ jobs'[j].attempts = jobs[j].attempts
             /\ \/ /\ jobs'[j].status = FAILED
                   /\ jobs'[j].last_error = "tentativas_excedidas"
                \/ jobs'[j] = jobs[j]]_vars

C17_Witness ==
    \E j \in Jobs :
        jobs[j].status = FAILED /\ jobs[j].last_error = "tentativas_excedidas"

\* C16: while some Runner keeps polling, a job that is RUNNING does not stay
\* RUNNING for ever, also when the Runner that claimed it never comes back
\* from the lookup: the watchdog requeues it.
\* a job whose every claimant sits in the lookup leaves RUNNING only by the
\* watchdog's requeue
C16_ByRequeue ==
    \A j \in Jobs :
        /\ jobs[j].status = RUNNING
        /\ jobs'[j].status # RUNNING
        /\ \E r \in Runners : w[r].job_id = j
        /\ \A r \in Runners :
               w[r].job_id = j => w[r].pc = "lookup" /\ w'[r] = w[r]
        => /\ jobs'[j].status = PENDING
           /\ jobs'[j].last_error = "ttl_requeue"
           /\ jobs'[j].attempts = jobs[j].attempts

FinalizePcs == {"finalize", "cancel", "notify_ok", "check", "notify_fail", "commit"}

\* a store operation of the finalization raised in this step of r
FinalizeErrorStep(r) == w[r].pc \in FinalizePcs /\ errors' # errors /\ w'[r] # w[r]

\* r left the claim block (lines 349-367) without a job to run: nothing
\* fetched, attempts exhausted, or a store operation raised
ClaimLeftStep(r) == w[r].pc \in {"fetch", "mark"} /\ w'[r].pc = "poll"

\* r is at the start of a poll cycle, with no transaction open
AtPollStart(r, ws, txs, locks) ==
    /\ ws[r] = Idle
    /\ txs[r] = NoTx
    /\ \A j \in Jobs : locks[j] # r

C18_BackToPoll ==
    \A r \in Runners :
        FinalizeErrorStep(r) \/ ClaimLeftStep(r) => AtPollStart(r, w', tx', lock')

C18_NeverStops ==
    \A r \in Runners :
        w[r].pc \in {"poll", "fetch", "mark", "lookup"} \cup FinalizePcs

\* C18: when an operation on the jobs table raises in a poll cycle, the
\* Runner is back at the start of a poll cycle with its transaction rolled
\* back; no Runner ever leaves the loop.
C18_StoreErrorSurvived == [](C18_NeverStops) /\ [][C18_BackToPoll]_vars

\* a store error ended the finalization of job j, which nobody runs now,
\* and the Runners are polling
C18_Witness ==
    /\ errors > 0
    /\ \A r \in Runners : w[r].pc \in {"poll", "fetch"}
    /\ \E j \in Jobs :
          /\ jobs[j].status = RUNNING
          /\ jobs[j].age = 0
          /\ \A r \in Runners : w[r].job_id # j

\* the write of finalize_job (or a read before it, lines 422-423) raised
\* in this step of r
FinalizeWriteFails(r) == w[r].pc = "finalize" /\ FinalizeErrorStep(r)

\* job j is RUNNING in the table and no Runner is running it
Abandoned(j) == jobs[j].status = RUNNING /\ \A r \in Runners : w[r].job_id # j

C19_StaysRunning ==
    \A r \in Runners :
        FinalizeWriteFails(r)
        => /\ jobs[w[r].job_id].status = RUNNING
           /\ jobs' = jobs

C19_NothingSent ==
    \A r \in Runners :
        FinalizeWriteFails(r) => sent' = sent /\ cademi' = cademi /\ vlog' = vlog

C19_RequeuedLater ==
    \A j \in Jobs :
        Abandoned(j) ~> (jobs[j].status = PENDING /\ jobs[j].last_error = "ttl_requeue")

\* C19: when the write of finalize_job fails the job is still RUNNING in
\* the table, the run sends no approved flow and no content unlock, and the
\* watchdog later requeues the job to PENDING.
C19_FailedFinalizeWrite ==
    /\ [][C19_StaysRunning /\ C19_NothingSent]_vars
    /\ C19_RequeuedLater

\* the status_log of a run in which pick_member_document, buscar_sbcp or
\* the matching raised (lines 384, 391, 409)
ExceptionLogs == {"db_erro", "error_execucao", "match_erro"}

\* r is about to finalize a run in which one of them raised
ExceptionRun(r) == w[r].pc = "finalize" /\ w[r].status_log \in ExceptionLogs

C20_NotSucceeded ==
    \A r \in Runners :
        ExceptionRun(r)
        => /\ ~w[r].ok
           /\ w[r].last_error # None
           /\ Decision(r).status \in {PENDING, FAILED}

C20_RetryOrFailWithLog ==
    \A r \in Runners :
        ExceptionRun(r) /\ FinalizeStep(r)
        => /\ tx'[r].writes[w[r].job_id].status =
                  IF w[r].attempts + 1 < MAX_ATTEMPTS THEN PENDING ELSE FAILED
           /\ tx'[r].writes[w[r].job_id].last_error \in
                  {"db_erro", "exec_erro", "match_erro"} \cup TimeoutErrors
           /\ tx'[r].logs = 1

C20_OneEntryCommitted ==
    \A r \in Runners :
        CommitStep(r) /\ tx[r].writes[w[r].job_id].status \in {PENDING, FAILED}
        => vlog'[MemberOf(r)] = vlog[MemberOf(r)] + 1

\* C20: a run in which reading the document, the lookup or the matching
\* raised is finalized as a retry (PENDING) or as FAILED, with one entry in
\* the validation log, and never as SUCCEEDED.
C20_ExceptionIsFailure ==
    /\ [](C20_NotSucceeded)
    /\ [][C20_RetryOrFailWithLog /\ C20_OneEntryCommitted]_vars

\* the finalization of a run whose lookup or matching raised has written
\* its decision and its log entry
C20_Witness ==
    \E r \in Runners :
        /\ w[r].pc \in {"check", "notify_fail", "commit"}
        /\ tx[r].writes[w[r].job_id] # NoWrite
        /\ tx[r].writes[w[r].job_id].last_error \in {"exec_erro", "match_erro"}
        /\ tx[r].logs = 1

\* the lookup of r's run returned (no exception) ..
Returned(r) == w[r].pc = "finalize" /\ w[r].looked /\ w[r].status_log \notin ExceptionLogs

\* .. a result that is not ok (buscar_sbcp: ok is bool(dados)), or one that
\* carries no identifier
NotFound(r) ==
    /\ Returned(r)
    /\ \/ w[r].dados = {}
       \/ collect_identifiers_from_result(w[r].dados) = {}

C21_NotSucceeded ==
    \A r \in Runners :
        NotFound(r) => ~w[r].ok /\ Decision(r).status \in {PENDING, FAILED}

C21_Retryable ==
    \A r \in Runners :
        NotFound(r) /\ FinalizeStep(r)
        => tx'[r].writes[w[r].job_id].status =
               IF w[r].attempts + 1 < MAX_ATTEMPTS THEN PENDING ELSE FAILED

\* C21: a lookup result that is not ok, or that carries no identifier,
\* never makes the run finalize SUCCEEDED: the run is a failure that is
\* retried (PENDING) until the attempts are used up (FAILED).
C21_NotFoundIsFailure == [](C21_NotSucceeded) /\ [][C21_Retryable]_vars

\* a lookup that found a profile without identifiers, ready to finalize
C21_Witness ==
    \E r \in Runners :
        /\ NotFound(r)
        /\ w[r].status_log = "numero_registro_invalido"
        /\ ~w[r].timed_out

\* a non-empty string of digits
DigitString(s) == s # <<>> /\ \A i \in 1..Len(s) : s[i] \in Digits

\* the two-letter regions
Regions == {<<a, b>> : a \in UpperLetters, b \in UpperLetters}

\* match_document was called on (raw, extracted) and returned ret.val
MatchCalled == ret.op = "match_document"

C22_SameNumber ==
    MatchCalled /\ DigitString(raw) /\ extracted = {raw} => ret.val

C22_RegionOnExpected ==
    MatchCalled
    => \A R \in Regions, n \in extracted :
           DigitString(n) /\ extracted = {n} /\ raw = NumUf(n, R) => ret.val

C22_RegionOnExtracted ==
    MatchCalled /\ DigitString(raw)
    => \A R \in Regions : extracted = {NumUf(raw, R)} => ret.val

\* C22: for a non-empty digit string n and a region R, match_document is
\* true on (n, {n}), on (n-R, {n}) and on (n, {n-R}).
C22_RegionTolerant == C22_SameNumber /\ C22_RegionOnExpected /\ C22_RegionOnExtracted

\* C23: match_document is true only if the number of the expected value is
\* the number of some extracted identifier; values with different numbers
\* do not match, whatever their regions.
C23_OnlySameNumber ==
    MatchCalled /\ ret.val
    => \E e \in extracted : split_number_uf(e).num = split_number_uf(raw).num

\* a match by the number alone: the expected value has a region that no
\* extracted identifier has
C23_Witness ==
    /\ MatchCalled
    /\ ret.val
    /\ split_number_uf(raw).num # <<>>
    /\ split_number_uf(raw).uf # NoUf
    /\ \A e \in extracted : split_number_uf(e).uf # split_number_uf(raw).uf

\* split_number_uf was called: ret.val is the pair it returned and raw is
\* now the string built from that pair
SplitCalled == ret.op = "split_number_uf"

\* C24: normalising is idempotent: split_number_uf of the string built from
\* split_number_uf(x) (number, or number-region when there is a region) is
\* the pair split_number_uf(x).
C24_Idempotent == SplitCalled => split_number_uf(raw) = ret.val

\* r commits the finalization of its run: a retry, FAILED or SUCCEEDED
\* decision on its job
DecisionStep(r) == CommitStep(r) /\ tx[r].writes[w[r].job_id] # NoWrite

\* r fails the job it fetched because its attempts are used up
ExhaustedDecision(r) ==
    /\ w[r].pc = "mark"
    /\ w[r].attempts >= MAX_ATTEMPTS
    /\ jobs'[w[r].job_id].status = FAILED
    /\ jobs[w[r].job_id].status # FAILED

C25_OnePerDecision ==
    \A r \in Runners :
        DecisionStep(r) \/ ExhaustedDecision(r)
        => /\ vlog'[MemberOf(r)] = vlog[MemberOf(r)] + 1
           /\ \A m \in Members \ {MemberOf(r)} : vlog'[m] = vlog[m]

C25_AppendOnly ==
    \A m \in Members :
        /\ vlog'[m] >= vlog[m]
        /\ vlog'[m] # vlog[m]
           => \E r \in Runners :
                 /\ DecisionStep(r) \/ ExhaustedDecision(r)
                 /\ MemberOf(r) = m

\* C25: every retry, FAILED or SUCCEEDED decision of a Runner adds exactly
\* one entry to the validation log of the job's Subject, and the entries of
\* a Subject are never fewer than before.
C25_AuditAppendOnly == [][C25_OnePerDecision /\ C25_AppendOnly]_vars

\* a job that succeeded after a retry: its Subject has two entries or more
C25_Witness ==
    \E j \in Jobs :
        /\ jobs[j].status = SUCCEEDED
        /\ jobs[j].attempts > 1
        /\ vlog[jobs[j].member_id] >= jobs[j].attempts

\* job j is as r's claim left it: RUNNING, with the attempts r's
\* mark_running wrote
AsClaimedBy(r, j) ==
    /\ jobs[j].status = RUNNING
    /\ jobs[j].attempts = w[r].attempts + 1

\* C26: a run that finalizes SUCCEEDED finds its job as its claim left it,
\* RUNNING and not requeued by the watchdog in between.
C26_SucceededNeverRequeued ==
    [][\A r \in Runners :
           FinalizeStep(r) /\ tx'[r].writes[w[r].job_id].status = SUCCEEDED
           => AsClaimedBy(r, w[r].job_id)]_vars

Terminal == {SUCCEEDED, FAILED, CANCELLED}

\* r is live: its lookups come back
Live(r) == []<>(w[r].pc # "lookup")

\* C27: with the store available, fair scheduling and a live Runner, every
\* job that is submitted is in the end in a terminal status for good.
C27_EveryJobEnds ==
    \A r \in Runners :
        Live(r) => \A j \in Jobs : <>[](jobs[j].status \in Terminal \cup {ABSENT})

\* a job that ended FAILED by its last run, with all Runners polling again
C27_Witness ==
    /\ \A r \in Runners : w[r].job_id = NoJob
    /\ jobs[NJobs].status \in Terminal
    /\ jobs[NJobs].attempts = MAX_ATTEMPTS

\* the run with locals run, for the document expected_doc, has made its
\* lookup, which returned within the TTL a candidate with the expected number
FoundIn(run, expected_doc) ==
    /\ run.pc = "finalize"
    /\ run.looked
    /\ run.status_log \notin ExceptionLogs
    /\ ~run.timed_out
    /\ split_number_uf(expected_doc).num # <<>>
    /\ \E v \in run.dados :
          split_number_uf(v).num = split_number_uf(expected_doc).num

LookupStep(r) == w[r].pc = "lookup" /\ w'[r].pc = "finalize" /\ errors' = errors

C28_Approved ==
    \A r \in Runners :
        LookupStep(r) /\ FoundIn(w'[r], ExpectedDoc(r))
        => /\ w'[r].ok
           /\ members'[MemberOf(r)].validacao_acesso = "aprovado"

C28_Succeeded ==
    \A r \in Runners :
        FinalizeStep(r) /\ FoundIn(w[r], ExpectedDoc(r))
        => tx'[r].writes[w[r].job_id] = [status |-> SUCCEEDED, last_error |-> None]

RunCalled == ret.op = "run"

\* C29: an expected identifier that is not empty but has no digit, so that
\* its number is empty, is no claim: the run makes no lookup.
C29_NoDigitNoLookup ==
    RunCalled /\ strip(raw) # <<>> /\ split_number_uf(raw).num = <<>>
    => ~ret.val.looked

\* C30: match_document is false for every expected value whose number is
\* empty, whatever the extracted set is, also one that holds the empty
\* string.
C30_EmptyNumberNoMatch ==
    MatchCalled /\ split_number_uf(raw).num = <<>> => ~ret.val

\* r's run writes FAILED for its job (line 456)
RunFailsJob(r) == FinalizeStep(r) /\ tx'[r].writes[w[r].job_id].status = FAILED

C31_Consults ==
    \A r \in Runners :
        RunFailsJob(r) \/ ExhaustedDecision(r) => w'[r].pc = "check"

C31_NotifiesUnlessSucceeded ==
    \A r \in Runners :
        /\ w[r].pc = "check"
        /\ w'[r].pc # "check"
        /\ errors' = errors
        /\ ~exists_succeeded_for_phone(r, PhoneOfJob(w[r].job_id))
        => w'[r].pc = "notify_fail"

\* C31: whenever a Runner makes a job FAILED, by the last run or by picking
\* it with its attempts used up, it consults exists_succeeded_for_phone
\* next and, when no job of the phone is SUCCEEDED, goes on to send the
\* pending flow.
C31_FailedConsultsDedup == [][C31_Consults /\ C31_NotifiesUnlessSucceeded]_vars

\* r's run updates the member (line 416)
SubjectStep(r) == w[r].pc = "lookup" /\ w'[r].pc = "finalize" /\ members' # members

\* the run of r has written its validations_log row (lines 427, 453, 457)
AuditWritten(r) == tx[r].logs > 0

C32_AuditBeforeSubject == \A r \in Runners : SubjectStep(r) => AuditWritten(r)

C32_SubjectBeforeFinalize ==
    \A r \in Runners :
        FinalizeStep(r) => members[MemberOf(r)].validacao_acesso # None

\* C32: within a run the validations_log row is written before the member is
\* updated, and the member is updated before the job row is finalized.
C32_AuditSubjectFinalize ==
    [][C32_AuditBeforeSubject /\ C32_SubjectBeforeFinalize]_vars

\* the write of its own job that r's open transaction holds
OwnWrite(r) == tx[r].writes[w[r].job_id]

C33_SenderFinalized ==
    \A j \in Jobs :
        sent'[j] # sent[j] =>
            \E r \in Runners :
                /\ w[r].job_id = j
                /\ w[r].pc \in {"notify_ok", "notify_fail"}
                /\ w'[r].pc = "commit"
                /\ OwnWrite(r).status \in {SUCCEEDED, FAILED}

C33_RetrySendsNothing ==
    \A r \in Runners :
        /\ w[r].job_id # NoJob
        /\ OwnWrite(r).status = PENDING
        => sent'[w[r].job_id] = sent[w[r].job_id]

\* C33: a flow is sent only by a run that has written SUCCEEDED or FAILED
\* for its job; a run that requeues its job to PENDING sends none.
C33_NotifyOnlyAfterTerminal == [][C33_SenderFinalized /\ C33_RetrySendsNothing]_vars

\* a job that went through a retry run had the pending flow sent by its
\* last run
C33_Witness ==
    \E j \in Jobs :
        /\ jobs[j].status = FAILED
        /\ jobs[j].attempts = MAX_ATTEMPTS
        /\ sent[j][FLOW_PENDENTE] > 0

\* r leaves lines 434-443 or 460-462 with no flow delivered: no subscriber,
\* or bc_send_flow returned False
FailedNotify(r) ==
    /\ w[r].pc \in {"notify_ok", "notify_fail"}
    /\ w'[r] # w[r]
    /\ sent' = sent
    /\ errors' = errors

C34_NothingUndone ==
    \A r \in Runners :
        FailedNotify(r) =>
            /\ w'[r].pc = "commit"
            /\ tx' = tx
            /\ lock' = lock
            /\ jobs' = jobs
            /\ members' = members

C34_DecisionCommitted ==
    \A r \in Runners :
        CommitStep(r) =>
            /\ OwnWrite(r) # NoWrite
            /\ jobs'[w[r].job_id].status = OwnWrite(r).status
            /\ jobs'[w[r].job_id].last_error = OwnWrite(r).last_error
            /\ members' = members

\* C34: a flow that is not delivered leaves the writes of the run's
\* finalization and the member as they are, and the run goes on to commit
\* them: nothing is rolled back.
C34_FailedNotifyKeepsDecision == [][C34_NothingUndone /\ C34_DecisionCommitted]_vars

\* a job of a member with a phone is SUCCEEDED and its member approved
\* although the approved flow was never delivered
C34_Witness ==
    \E j \in Jobs :
        /\ jobs[j].status = SUCCEEDED
        /\ PhoneOfJob(j) # NoPhone
        /\ sent[j][FLOW_APROVADO] = 0
        /\ members[jobs[j].member_id].validacao_acesso = "aprovado"

C35_OnlyOnTerminal ==
    \A r \in Runners :
        SubjectStep(r) => Decision(r)'.status \in {SUCCEEDED, FAILED}

\* C35: a run changes validacao_acesso and portal_validado of its member
\* only when its decision is SUCCEEDED or FAILED; a run that requeues the
\* job leaves the member as it was.
C35_SubjectOnTerminalOnly == [][C35_OnlyOnTerminal]_vars

\* C36: portal_validado of a member is changed only by a run of a job of
\* the member whose decision is SUCCEEDED; a run that ends in a retry or in
\* FAILED leaves it as it was.
C36_SourceOnlyOnSuccess ==
    [][\A m \in Members :
          members'[m].portal_validado # members[m].portal_validado =>
              \E r \in Runners :
                  /\ SubjectStep(r)
                  /\ MemberOf(r) = m
                  /\ Decision(r)'.status = SUCCEEDED]_vars

\* C37: a member whose validacao_acesso is 'aprovado' stays approved,
\* whatever a later or concurrent job of the member comes to.
C37_ApprovedStays ==
    [][\A m \in Members :
          members[m].validacao_acesso = "aprovado" =>
              members'[m].validacao_acesso = "aprovado"]_vars

\* r is in the success branch of the finalization (lines 426-443)
InSuccessBranch(r) == w[r].pc \in {"cancel", "notify_ok"}

C38_BranchOfSuccess ==
    \A r \in Runners :
        InSuccessBranch(r) =>
            /\ OwnWrite(r).status = SUCCEEDED
            /\ w[r].ok
            /\ ~w[r].timed_out

C38_SentInBranch ==
    \A j \in Jobs :
        j \in cademi' \ cademi =>
            \E r \in Runners :
                /\ w[r].job_id = j
                /\ w[r].pc = "notify_ok"
                /\ w'[r].pc = "commit"

\* C38: the Cademi postback is sent only by a run that wrote SUCCEEDED for
\* its job after a lookup that matched within the TTL; a run that requeues
\* or fails its job, or that timed out, never sends it.
C38_UnlockOnlyOnSuccess == [](C38_BranchOfSuccess) /\ [][C38_SentInBranch]_vars

\* the postback was delivered for a job that is SUCCEEDED
C38_Witness == \E j \in cademi : jobs[j].status = SUCCEEDED

\* the rows cancel_other_jobs_for_phone(phone, exclude_job_id) may change
Cancellable(phone, exclude_job_id) ==
    {j \in Jobs : /\ phone # NoPhone
                  /\ PhoneOfJob(j) = phone
                  /\ j # exclude_job_id
                  /\ jobs[j].status \in {PENDING, RUNNING}}

C39_WritesOnlySiblings ==
    \A r \in Runners :
        CancelStep(r) =>
            LET C == Cancellable(PhoneOfJob(w[r].job_id), w[r].job_id)
            IN  /\ \A j \in Jobs \ C : tx'[r].writes[j] = tx[r].writes[j]
                /\ \A j \in C : tx'[r].writes[j].status = CANCELLED
                /\ jobs' = jobs

C39_CommitsOnlySiblings ==
    \A r \in Runners :
        CommitStep(r) =>
            \A j \in Jobs \ {w[r].job_id} :
                jobs'[j] # jobs[j] =>
                    /\ j \in Cancellable(PhoneOfJob(w[r].job_id), w[r].job_id)
                    /\ jobs'[j].status = CANCELLED

\* C39: cancel_other_jobs_for_phone(phone, id) changes only the jobs of the
\* non-empty phone other than id that are PENDING or RUNNING, to CANCELLED;
\* every other job is unchanged, and with an empty phone none is changed.
C39_CancelFrame == [][C39_WritesOnlySiblings /\ C39_CommitsOnlySiblings]_vars

\* a run has cancelled a sibling of its job
C39_Witness ==
    \E r \in Runners : \E j \in Jobs :
        /\ w[r].pc = "notify_ok"
        /\ j # w[r].job_id
        /\ tx[r].writes[j].status = CANCELLED

\* C40: in every reachable state the attempts of every job are at most
\* MAX_ATTEMPTS, however claims, retries and watchdog requeues interleave.
C40_AttemptsBounded == \A j \in Jobs : jobs[j].attempts <= MAX_ATTEMPTS

\* a job requeued by the watchdog with its attempts used up was failed
\* without another run
C40_Witness ==
    \E j \in Jobs :
        /\ jobs[j].status = FAILED
        /\ jobs[j].last_error = "tentativas_excedidas"
        /\ jobs[j].attempts = MAX_ATTEMPTS
====
